---------------------------- MODULE Spec2Model ----------------------------
(***************************************************************************)
(* NetGuardian native core: the chart renderer (render_manager.cpp) and    *)
(* the throughput statistics engine (traffic_analyzer.cpp).                *)
(*                                                                         *)
(* The specifications share the variables:                                 *)
(*   Spec         RenderManager with its surface callbacks, producers and  *)
(*                DrawFrame at statement granularity;                      *)
(*   SpecLive     the same with a surface held from the start and fair     *)
(*                scheduling of the running threads;                       *)
(*   SpecBurst    PushData calls alone on a held surface, every buffer     *)
(*                request and mapping succeeding;                          *)
(*   SpecBuffer   RenderManager with no surface attached and enough pushes *)
(*                to overflow the 15-entry sample buffer;                  *)
(*   SpecCopy     DrawFrame's pixel copy, byte by byte;                    *)
(*   SpecStats    the statistics engine driven by analyzeLength /          *)
(*                analyzeTraffic / resetState with well-formed byte counts;*)
(*   SpecWarmup   the statistics engine over sessions long enough to pass  *)
(*                the warm-up of the minimum;                              *)
(*   SpecBoundary the entry points of the engine given any JS value.       *)
(***************************************************************************)
EXTENDS Integers, Sequences, FiniteSets, TLC

(***************************************************************************)
(* Bounds of the model.                                                    *)
(***************************************************************************)
\* PushData calls in Spec
MaxPush == 2
\* PushData calls past the buffer capacity in SpecBuffer
MaxOverflow == 5
\* analyzer events in SpecStats
MaxEvents == 7
\* resetState calls in SpecStats
MaxResets == 1
\* analyzer calls in SpecBoundary
MaxBoundaryCalls == 4
\* analyzer calls in SpecWarmup
MaxWarmupEvents == 9
\* PushData calls in SpecLive
MaxLivePush == 1

(***************************************************************************)
(* Program constants.                                                      *)
(***************************************************************************)
MAX_HISTORY_SIZE == 15

\* threads calling PushData / ClearData / GetDataSnapshot
Producers == {"p1", "p2"}
\* the host thread that delivers the XComponent surface callbacks
UiThread == "ui"
Threads == Producers \cup {UiThread}

NULL == "nullptr"
Window == "window"
NoThread == "unlocked"
\* sizes OH_NativeXComponent_GetXComponentSize may report, <<width, height>>
SurfaceSizes == {<<0, 0>>, <<2, 2>>}
NoFrame == [data |-> <<>>, window |-> NULL, submitted |-> FALSE]
\* the entry point a thread is running, with the size a surface callback was given
Call(name, size) == [name |-> name, size |-> size]
NoCall == Call("none", <<0, 0>>)

VARIABLES
    \* ---- RenderManager fields (render_manager.h) ----
    nativeWindow_,   \* OHNativeWindow*: NULL or Window
    width_,          \* uint64_t
    height_,         \* uint64_t
    dataMutex_,      \* std::mutex: NoThread or the thread that holds it
    speedHistory_,   \* std::deque<double>
    isRendering_,    \* std::atomic<bool>
    \* ---- threads ----
    pc,              \* the statement each thread is at
    handler,         \* the entry point each thread is running: Call(name, size)
    \* ---- DrawFrame / GetDataSnapshot locals, per thread ----
    buffer,          \* OHNativeWindowBuffer* buffer: "none" or "held"
    needsUnmap,      \* bool needsUnmap
    bitmap,          \* <<width, height>> the off-screen bitmap was built with
    data,            \* the vector GetDataSnapshot returned
    \* ---- surface / compositor side ----
    copied,          \* <<width, height>> the pixel copy into the held buffer used
    presented,       \* the frame last handed to FlushBuffer
    \* ---- bookkeeping ----
    pushCount,       \* number of PushData calls so far
    pushLimit,       \* number of PushData calls the run allows
    pushed           \* values appended since the last ClearData, in arrival order

rvars == <<nativeWindow_, width_, height_, dataMutex_, speedHistory_, isRendering_,
           pc, handler, buffer, needsUnmap, bitmap, data, copied, presented,
           pushCount, pushLimit, pushed>>

\* ---- traffic_analyzer.cpp ----
VARIABLES
    g,               \* the file-scope statistics state (g_speedWindow, g_totalBytes, ...)
    now,             \* std::chrono::steady_clock::now(), in microseconds
    result,          \* the value the last analyzer call returned
    \* ---- bookkeeping ----
    session,         \* <<byteLength, arrival time>> of each event since the session began
    fresh,           \* a newly loaded analyzer fed the events of `session`
    calls,           \* number of analyzer events so far
    callLimit,       \* number of analyzer events the run allows
    resets,          \* number of resetState calls so far
    lastArg          \* how the argument of the last analyzer call reads as a byte count

svars == <<g, now, result, session, fresh, calls, callLimit, resets, lastArg>>

\* ---- the pixel copy at the end of DrawFrame, byte by byte ----
VARIABLES
    bufferStride,    \* handle->stride: bytes from one row of the window buffer to the next
    bitmapPixels,    \* the bytes of the off-screen bitmap, by offset
    windowPixels,    \* the bytes of the mapped window buffer, by offset
    row              \* the loop variable i: rows copied so far

cvars == <<bufferStride, bitmapPixels, windowPixels, row>>

vars == <<rvars, svars, cvars>>

(***************************************************************************)
(* Sequence helpers.                                                       *)
(***************************************************************************)
LastN(s, n) == IF Len(s) <= n THEN s ELSE SubSeq(s, Len(s) - n + 1, Len(s))

(***************************************************************************)
(* RenderManager: the sample buffer.                                       *)
(***************************************************************************)
\* mutant: the lock_guard is left out
NoLock == TRUE

\* std::lock_guard<std::mutex> lock(dataMutex_): proceeds when nobody holds it
LockFree == dataMutex_ = NoThread

\* mutant: evicts one push early (>= for >)
EvictAtCapacity(h) == IF Len(h) >= MAX_HISTORY_SIZE THEN Tail(h) ELSE h

\* if (speedHistory_.size() > MAX_HISTORY_SIZE) speedHistory_.pop_front();
Evict(h) == IF Len(h) > MAX_HISTORY_SIZE THEN Tail(h) ELSE h

\* PushData, lines 28-30: take the lock and append.  The i-th call pushes the
\* value i: PushData never inspects the value, so distinct values in arrival
\* order are the general case.
PushBack(t) ==
    /\ t \in Producers
    /\ pc[t] = "idle"
    /\ pushCount < pushLimit
    /\ LockFree
    /\ dataMutex_' = t
    /\ pushCount' = pushCount + 1
    /\ speedHistory_' = Append(speedHistory_, pushCount + 1)
    /\ pushed' = Append(pushed, pushCount + 1)
    /\ pc' = [pc EXCEPT ![t] = "evict"]
    /\ handler' = [handler EXCEPT ![t] = Call("PushData", <<0, 0>>)]
    /\ UNCHANGED <<svars, cvars, nativeWindow_, width_, height_, isRendering_, buffer, needsUnmap,
                   bitmap, data, copied, presented, pushLimit>>

\* mutant: the lock is still held when PushData goes on to the compare_exchange
PushEvictLockKept(t) ==
    /\ pc[t] = "evict"
    /\ dataMutex_ = t
    /\ speedHistory_' = Evict(speedHistory_)
    /\ dataMutex_' = dataMutex_
    /\ pc' = [pc EXCEPT ![t] = "cas"]
    /\ UNCHANGED <<svars, cvars, nativeWindow_, width_, height_, isRendering_, handler, buffer,
                   needsUnmap, bitmap, data, copied, presented, pushCount, pushLimit,
                   pushed>>

\* PushData, lines 31-34: evict the oldest value past the capacity, release the lock
PushEvict(t) ==
    /\ pc[t] = "evict"
    /\ dataMutex_ = t
    /\ speedHistory_' = Evict(speedHistory_)
    /\ dataMutex_' = NoThread
    /\ pc' = [pc EXCEPT ![t] = "cas"]
    /\ UNCHANGED <<svars, cvars, nativeWindow_, width_, height_, isRendering_, handler, buffer,
                   needsUnmap, bitmap, data, copied, presented, pushCount, pushLimit,
                   pushed>>

\* PushData, lines 36-39: isRendering_.compare_exchange_strong(expected = false, true)
PushCas(t) ==
    /\ pc[t] = "cas"
    /\ IF isRendering_ = FALSE
         THEN /\ isRendering_' = TRUE
              /\ pc' = [pc EXCEPT ![t] = "check"]
              /\ UNCHANGED handler
         ELSE /\ isRendering_' = isRendering_
              /\ pc' = [pc EXCEPT ![t] = "idle"]
              /\ handler' = [handler EXCEPT ![t] = NoCall]
    /\ UNCHANGED <<svars, cvars, nativeWindow_, width_, height_, dataMutex_, speedHistory_, buffer,
                   needsUnmap, bitmap, data, copied, presented, pushCount, pushLimit,
                   pushed>>

\* ClearData, lines 43-46
ClearData(t) ==
    /\ t \in Producers
    /\ pc[t] = "idle"
    /\ LockFree
    /\ speedHistory_ # <<>>
    /\ speedHistory_' = <<>>
    /\ pushed' = <<>>
    /\ UNCHANGED <<svars, cvars, nativeWindow_, width_, height_, dataMutex_, isRendering_, pc, handler,
                   buffer, needsUnmap, bitmap, data, copied, presented, pushCount,
                   pushLimit>>

\* GetDataSnapshot, lines 49-52, called on its own: lock, copy, unlock
GetDataSnapshot(t) ==
    /\ t \in Producers
    /\ pc[t] = "idle"
    /\ LockFree
    /\ data' = [data EXCEPT ![t] = speedHistory_]
    /\ pc' = [pc EXCEPT ![t] = "got"]
    /\ handler' = [handler EXCEPT ![t] = Call("GetDataSnapshot", <<0, 0>>)]
    /\ UNCHANGED <<svars, cvars, nativeWindow_, width_, height_, dataMutex_, speedHistory_,
                   isRendering_, buffer, needsUnmap, bitmap, copied, presented,
                   pushCount, pushLimit, pushed>>

\* the caller of GetDataSnapshot drops the returned vector
SnapshotReturn(t) ==
    /\ pc[t] = "got"
    /\ data' = [data EXCEPT ![t] = <<>>]
    /\ pc' = [pc EXCEPT ![t] = "idle"]
    /\ handler' = [handler EXCEPT ![t] = NoCall]
    /\ UNCHANGED <<svars, cvars, nativeWindow_, width_, height_, dataMutex_, speedHistory_,
                   isRendering_, buffer, needsUnmap, bitmap, copied, presented,
                   pushCount, pushLimit, pushed>>

(***************************************************************************)
(* RenderManager: the surface callbacks, delivered one at a time on the    *)
(* host's UI thread.                                                       *)
(***************************************************************************)
\* OnSurfaceCreated, lines 55-76; the size is recorded only when
\* OH_NativeXComponent_GetXComponentSize succeeds
OnSurfaceCreated(size, sizeOk) ==
    /\ pc[UiThread] = "idle"
    /\ nativeWindow_' = Window
    /\ width_' = IF sizeOk THEN size[1] ELSE width_
    /\ height_' = IF sizeOk THEN size[2] ELSE height_
    /\ UNCHANGED <<svars, cvars, dataMutex_, speedHistory_, isRendering_, pc, handler, buffer,
                   needsUnmap, bitmap, data, copied, presented, pushCount, pushLimit,
                   pushed>>

\* mutant: the callback draws only after winning the compare_exchange
OnSurfaceChangedGuarded(size) ==
    /\ pc[UiThread] = "idle"
    /\ width_' = size[1]
    /\ height_' = size[2]
    /\ pc' = [pc EXCEPT ![UiThread] = "cas"]
    /\ handler' = [handler EXCEPT ![UiThread] = Call("OnSurfaceChanged", size)]
    /\ UNCHANGED <<svars, cvars, nativeWindow_, dataMutex_, speedHistory_, isRendering_, buffer,
                   needsUnmap, bitmap, data, copied, presented, pushCount, pushLimit,
                   pushed>>

\* OnSurfaceChanged, lines 78-89: record the size, then call DrawFrame directly
OnSurfaceChanged(size) ==
    /\ pc[UiThread] = "idle"
    /\ width_' = size[1]
    /\ height_' = size[2]
    /\ pc' = [pc EXCEPT ![UiThread] = "check"]
    /\ handler' = [handler EXCEPT ![UiThread] = Call("OnSurfaceChanged", size)]
    /\ UNCHANGED <<svars, cvars, nativeWindow_, dataMutex_, speedHistory_, isRendering_, buffer,
                   needsUnmap, bitmap, data, copied, presented, pushCount, pushLimit,
                   pushed>>

\* OnSurfaceDestroyed, lines 92-95
OnSurfaceDestroyed ==
    /\ pc[UiThread] = "idle"
    /\ nativeWindow_ # NULL
    /\ nativeWindow_' = NULL
    /\ UNCHANGED <<svars, cvars, width_, height_, dataMutex_, speedHistory_, isRendering_, pc, handler,
                   buffer, needsUnmap, bitmap, data, copied, presented, pushCount,
                   pushLimit, pushed>>

(***************************************************************************)
(* RenderManager::DrawFrame, one action per blocking or shared-state step. *)
(***************************************************************************)
\* the thread is between DrawFrame's entry and its return
InDrawFrame(t) ==
    pc[t] \in {"check", "request", "map", "aborted", "snapshot", "copy", "flush", "clear"}

\* the thread is past the surface check: it requests, holds or submits a buffer
Rendering(t) == pc[t] \in {"request", "map", "aborted", "snapshot", "copy", "flush", "clear"}

\* mutant: returns without clearing the guard
DrawReturnGuardKept(t) ==
    /\ isRendering_' = isRendering_
    /\ pc' = [pc EXCEPT ![t] = "idle"]
    /\ handler' = [handler EXCEPT ![t] = NoCall]
    /\ buffer' = [buffer EXCEPT ![t] = "none"]
    /\ needsUnmap' = [needsUnmap EXCEPT ![t] = FALSE]
    /\ bitmap' = [bitmap EXCEPT ![t] = <<0, 0>>]
    /\ copied' = [copied EXCEPT ![t] = <<0, 0>>]
    /\ data' = [data EXCEPT ![t] = <<>>]

\* `isRendering_ = false; return;`
DrawReturn(t) ==
    /\ isRendering_' = FALSE
    /\ pc' = [pc EXCEPT ![t] = "idle"]
    /\ handler' = [handler EXCEPT ![t] = NoCall]
    /\ buffer' = [buffer EXCEPT ![t] = "none"]
    /\ needsUnmap' = [needsUnmap EXCEPT ![t] = FALSE]
    /\ bitmap' = [bitmap EXCEPT ![t] = <<0, 0>>]
    /\ copied' = [copied EXCEPT ![t] = <<0, 0>>]
    /\ data' = [data EXCEPT ![t] = <<>>]

\* lines 118-121: if (nativeWindow_ == nullptr) { isRendering_ = false; return; }
DrawCheck(t) ==
    /\ pc[t] = "check"
    /\ IF nativeWindow_ = NULL
         THEN DrawReturn(t)
         ELSE /\ pc' = [pc EXCEPT ![t] = "request"]
              /\ UNCHANGED <<isRendering_, handler, buffer, needsUnmap, bitmap, data, copied>>
    /\ UNCHANGED <<svars, cvars, nativeWindow_, width_, height_, dataMutex_, speedHistory_,
                   presented, pushCount, pushLimit, pushed>>

\* lines 123-137: OH_NativeWindow_NativeWindowRequestBuffer(nativeWindow_, ...)
\* returned a buffer, which it does only for a window handle that is not null
DrawRequestOk(t) ==
    /\ pc[t] = "request"
    /\ nativeWindow_ # NULL
    /\ buffer' = [buffer EXCEPT ![t] = "held"]
    /\ pc' = [pc EXCEPT ![t] = "map"]
    /\ UNCHANGED <<svars, cvars, nativeWindow_, width_, height_, dataMutex_, speedHistory_,
                   isRendering_, handler, needsUnmap, bitmap, data, copied, presented,
                   pushCount, pushLimit, pushed>>

\* lines 128-132: the request failed
DrawRequestFail(t) ==
    /\ pc[t] = "request"
    /\ DrawReturn(t)
    /\ UNCHANGED <<svars, cvars, nativeWindow_, width_, height_, dataMutex_, speedHistory_,
                   presented, pushCount, pushLimit, pushed>>

\* lines 139-168: the buffer is addressable (virAddr set, or mmap succeeded and
\* needsUnmap = true); the bitmap is built with the recorded width_ x height_
DrawMap(t, mmapped) ==
    /\ pc[t] = "map"
    /\ needsUnmap' = [needsUnmap EXCEPT ![t] = mmapped]
    /\ bitmap' = [bitmap EXCEPT ![t] = <<width_, height_>>]
    /\ pc' = [pc EXCEPT ![t] = "snapshot"]
    /\ UNCHANGED <<svars, cvars, nativeWindow_, width_, height_, dataMutex_, speedHistory_,
                   isRendering_, handler, buffer, data, copied, presented, pushCount,
                   pushLimit, pushed>>

\* mutant: the mmap failure path leaves the buffer with the caller
DrawMapFailNoAbort(t) ==
    /\ pc[t] = "map"
    /\ pc' = [pc EXCEPT ![t] = "aborted"]
    /\ UNCHANGED <<svars, cvars, nativeWindow_, width_, height_, dataMutex_, speedHistory_,
                   isRendering_, handler, buffer, needsUnmap, bitmap, data, copied,
                   presented, pushCount, pushLimit, pushed>>

\* lines 146-149: mmap failed; OH_NativeWindow_NativeWindowAbortBuffer(nativeWindow_, buffer)
DrawMapFail(t) ==
    /\ pc[t] = "map"
    /\ buffer' = [buffer EXCEPT ![t] = "none"]
    /\ pc' = [pc EXCEPT ![t] = "aborted"]
    /\ UNCHANGED <<svars, cvars, nativeWindow_, width_, height_, dataMutex_, speedHistory_,
                   isRendering_, handler, needsUnmap, bitmap, data, copied, presented,
                   pushCount, pushLimit, pushed>>

\* mutant: the mmap failure path returns with the guard still set
DrawMapFailReturnGuardKept(t) ==
    /\ pc[t] = "aborted"
    /\ DrawReturnGuardKept(t)
    /\ UNCHANGED <<svars, cvars, nativeWindow_, width_, height_, dataMutex_, speedHistory_,
                   presented, pushCount, pushLimit, pushed>>

\* lines 150-151: isRendering_ = false; return;
DrawMapFailReturn(t) ==
    /\ pc[t] = "aborted"
    /\ DrawReturn(t)
    /\ UNCHANGED <<svars, cvars, nativeWindow_, width_, height_, dataMutex_, speedHistory_,
                   presented, pushCount, pushLimit, pushed>>

\* line 171: auto data = GetDataSnapshot();
DrawSnapshot(t) ==
    /\ pc[t] = "snapshot"
    /\ LockFree
    /\ data' = [data EXCEPT ![t] = speedHistory_]
    /\ pc' = [pc EXCEPT ![t] = "copy"]
    /\ UNCHANGED <<svars, cvars, nativeWindow_, width_, height_, dataMutex_, speedHistory_,
                   isRendering_, handler, buffer, needsUnmap, bitmap, copied, presented,
                   pushCount, pushLimit, pushed>>

\* lines 172-274: rasterize the snapshot (a waveform only for more than one
\* sample) and copy width_ x height_ pixels into the held window buffer
DrawCopy(t) ==
    /\ pc[t] = "copy"
    /\ copied' = [copied EXCEPT ![t] = <<width_, height_>>]
    /\ pc' = [pc EXCEPT ![t] = "flush"]
    /\ UNCHANGED <<svars, cvars, nativeWindow_, width_, height_, dataMutex_, speedHistory_,
                   isRendering_, handler, buffer, needsUnmap, bitmap, data, presented,
                   pushCount, pushLimit, pushed>>

\* lines 276-287: destroy the canvas, munmap when needsUnmap, FlushBuffer(nativeWindow_, buffer)
DrawFlush(t) ==
    /\ pc[t] = "flush"
    /\ presented' = [data |-> data[t], window |-> nativeWindow_, submitted |-> TRUE]
    /\ buffer' = [buffer EXCEPT ![t] = "none"]
    /\ needsUnmap' = [needsUnmap EXCEPT ![t] = FALSE]
    /\ pc' = [pc EXCEPT ![t] = "clear"]
    /\ UNCHANGED <<svars, cvars, nativeWindow_, width_, height_, dataMutex_, speedHistory_,
                   isRendering_, handler, bitmap, data, copied, pushCount, pushLimit,
                   pushed>>

\* line 289: isRendering_ = false;
DrawClear(t) ==
    /\ pc[t] = "clear"
    /\ DrawReturn(t)
    /\ UNCHANGED <<svars, cvars, nativeWindow_, width_, height_, dataMutex_, speedHistory_,
                   presented, pushCount, pushLimit, pushed>>

(***************************************************************************)
(* DrawFrame, lines 255-274: the copy of the bitmap into the window        *)
(* buffer at byte granularity.  Offsets start at 0.                        *)
(***************************************************************************)
\* widths and heights in pixels, and buffer strides in bytes, of the copy
CopyWidths == {1, 2, 3}
CopyHeights == {1, 2, 3, 4}
CopyStrides == {4, 8, 12, 16}

\* line 261: int32_t bitmapStride = width_ * 4;
BitmapStride == width_ * 4

\* the offsets a copy of the whole image may touch in a buffer of this stride
WindowOffsets(width, height, stride) ==
    LET rows == height * stride
        reach == (height - 1) * stride + width * 4
    IN  0 .. ((IF rows > reach THEN rows ELSE reach) - 1)

\* memcpy(dst + to, src + from, n) on distinct objects
Memcpy(dst, to, src, from, n) ==
    [a \in DOMAIN dst |-> IF a >= to /\ a < to + n THEN src[from + (a - to)] ELSE dst[a]]

\* lines 264-266: equal strides, one memcpy of width_ * height_ * 4 bytes
CopyWhole ==
    /\ bufferStride = BitmapStride
    /\ row < height_
    /\ windowPixels' = Memcpy(windowPixels, 0, bitmapPixels, 0, width_ * height_ * 4)
    /\ row' = height_
    /\ UNCHANGED <<rvars, svars, bufferStride, bitmapPixels>>

\* lines 268-272: one pass of the row loop
CopyRow ==
    /\ bufferStride # BitmapStride
    /\ row < height_
    /\ windowPixels' = Memcpy(windowPixels, row * bufferStride,
                              bitmapPixels, row * BitmapStride, width_ * 4)
    /\ row' = row + 1
    /\ UNCHANGED <<rvars, svars, bufferStride, bitmapPixels>>

(***************************************************************************)
(* Exact arithmetic on the analyzer's doubles: a number is a reduced       *)
(* fraction <<numerator, denominator>> with a positive denominator, so two *)
(* numbers are equal exactly when their pairs are.  Floating-point         *)
(* rounding is not modelled.                                               *)
(***************************************************************************)
Abs(x) == IF x < 0 THEN -x ELSE x

RECURSIVE Gcd(_, _)
Gcd(a, b) == IF b = 0 THEN a ELSE Gcd(b, a % b)

Frac(n, d) ==
    LET k == Gcd(Abs(n), Abs(d))
        sign == IF d < 0 THEN -1 ELSE 1
    IN  <<(sign * n) \div k, (sign * d) \div k>>

Num(n) == <<n, 1>>
Zero == Num(0)
RAdd(a, b) ==
    LET k == Gcd(a[2], b[2])
    IN  Frac(a[1] * (b[2] \div k) + b[1] * (a[2] \div k), (a[2] \div k) * b[2])
RSub(a, b) == RAdd(a, <<-b[1], b[2]>>)
RMul(a, b) ==
    LET x == Frac(a[1], b[2])
        y == Frac(b[1], a[2])
    IN  <<x[1] * y[1], x[2] * y[2]>>
RDiv(a, b) == RMul(a, Frac(b[2], b[1]))
RLess(a, b) == a[1] * b[2] < b[1] * a[2]
\* x * x of a reduced fraction is reduced
RSquare(x) == <<x[1] * x[1], x[2] * x[2]>>

\* std::sqrt(x): the non-negative number whose square is x
Sqrt(x) == [squared |-> x]

\* std::accumulate(window.begin(), window.end(), init)
Accumulate(window, init) ==
    LET acc[i \in 0..Len(window)] == IF i = 0 THEN init ELSE RAdd(acc[i - 1], window[i])
    IN  acc[Len(window)]

(***************************************************************************)
(* traffic_analyzer.cpp                                                    *)
(***************************************************************************)
WINDOW_SIZE == 100
MIN_CALC_INTERVAL_US == 100000

\* lines 17-28: the static initializers; a default time_point is the clock's epoch
FreshState ==
    [g_speedWindow |-> <<>>,
     g_totalBytes |-> 0,
     g_lastPacketTime |-> 0,
     g_isFirstPacket |-> TRUE,
     g_accumulatedBytes |-> 0,
     g_globalMax |-> Zero,
     g_globalAvgKbps |-> Zero,
     g_globalMin |-> Num(-1),
     g_sessionStartTime |-> 0,
     g_sampleCount |-> 0]

\* ResetState, lines 31-44, called at time t
ResetState(s, t) ==
    [s EXCEPT !.g_speedWindow = <<>>,
              !.g_totalBytes = 0,
              !.g_accumulatedBytes = 0,
              !.g_isFirstPacket = TRUE,
              !.g_globalMax = Zero,
              !.g_globalMin = Num(-1),
              !.g_sampleCount = 0,
              !.g_lastPacketTime = t,
              !.g_sessionStartTime = t]

\* lines 50-54: sum_sq_diff += diff * diff over the window
SumSqDiff(window, mean) ==
    LET sum_sq_diff[i \in 0..Len(window)] ==
          IF i = 0 THEN Zero
          ELSE LET diff == RSub(window[i], mean)
               IN  RAdd(sum_sq_diff[i - 1], RSquare(diff))
    IN  sum_sq_diff[Len(window)]

\* CalculateJitter, lines 47-56
CalculateJitter(window, mean) ==
    IF Len(window) < 2 THEN Sqrt(Zero)
    ELSE Sqrt(RDiv(SumSqDiff(window, mean), Num(Len(window))))

\* CreateResultObject, lines 59-82; `site` names the return statement
CreateResultObject(site, instant, max, min, avg, jitter, total) ==
    [site |-> site, instantKbps |-> instant, maxKbps |-> max, minKbps |-> min,
     avgKbps |-> avg, jitter |-> jitter, totalBytes |-> total]

\* lines 97-99: napi_create_object with no property set
EmptyObject == [site |-> "empty"]

\* mutant: the first packet of a session is not counted
AddBytesAfterFirst(s, byteLength) ==
    IF s.g_isFirstPacket THEN s
    ELSE [s EXCEPT !.g_totalBytes = @ + byteLength, !.g_accumulatedBytes = @ + byteLength]

\* mutant: the pending bytes are replaced by the event's, not added to
AddBytesPendingReplaced(s, byteLength) ==
    [s EXCEPT !.g_totalBytes = @ + byteLength, !.g_accumulatedBytes = byteLength]

\* lines 88-89: g_totalBytes += byteLength; g_accumulatedBytes += byteLength;
AddBytes(s, byteLength) ==
    [s EXCEPT !.g_totalBytes = @ + byteLength, !.g_accumulatedBytes = @ + byteLength]

\* line 105: if (duration_us < MIN_CALC_INTERVAL_US)
Debounced(duration_us) == duration_us < MIN_CALC_INTERVAL_US

\* mutant: front() for back()
LastInstantFront(window) == IF window = <<>> THEN Zero ELSE window[1]

\* line 106: g_speedWindow.empty() ? 0.0 : g_speedWindow.back()
LastInstant(window) == IF window = <<>> THEN Zero ELSE window[Len(window)]

\* line 110: g_speedWindow.empty() ? 0.0 : windowSum / g_speedWindow.size()
WindowAvg(window) ==
    IF window = <<>> THEN Zero ELSE RDiv(Accumulate(window, Zero), Num(Len(window)))

\* lines 117, 166: g_globalMin < 0 ? 0 : g_globalMin
ReportedMin(min) == IF RLess(min, Zero) THEN Zero ELSE min

\* lines 125-129: (g_accumulatedBytes * 8.0 / duration_sec) / 1024.0
InstantKbps(accumulated, duration_us) ==
    LET duration_sec == RDiv(Num(duration_us), Num(1000000))
        currentBits == RMul(Num(accumulated), Num(8))
    IN  RDiv(RDiv(currentBits, duration_sec), Num(1024))

\* mutant: the maximum follows the latest sample
UpdateMaxLatest(max, instantKbps) == instantKbps

\* lines 132-134
UpdateMax(max, instantKbps) == IF RLess(max, instantKbps) THEN instantKbps ELSE max

\* mutant: the minimum is taken from the fifth tick on
UpdateMinFromFifth(min, instantKbps, sampleCount) ==
    IF sampleCount >= 5 /\ (RLess(min, Zero) \/ RLess(instantKbps, min))
    THEN instantKbps ELSE min

\* lines 138-142, with g_sampleCount already incremented
UpdateMin(min, instantKbps, sampleCount) ==
    IF sampleCount > 5 /\ (RLess(min, Zero) \/ RLess(instantKbps, min))
    THEN instantKbps ELSE min

\* lines 145-147: (total_sec > 0) ? (g_totalBytes * 8.0 / 1024.0) / total_sec : 0
GlobalAvgKbps(totalBytes, total_us) ==
    LET total_sec == RDiv(Num(total_us), Num(1000000))
    IN  IF RLess(Zero, total_sec)
        THEN RDiv(RDiv(RMul(Num(totalBytes), Num(8)), Num(1024)), total_sec)
        ELSE Zero

\* lines 151-152
PushSample(window, instantKbps) ==
    Append(IF Len(window) >= WINDOW_SIZE THEN Tail(window) ELSE window, instantKbps)

\* ProcessTrafficCore, lines 84-171, called at time t: the state it leaves and
\* the value it returns
ProcessTrafficCore(s, byteLength, t) ==
    LET s1 == AddBytes(s, byteLength)
        duration_us == t - s1.g_lastPacketTime
    IN  IF s1.g_isFirstPacket
        THEN [state |-> [s1 EXCEPT !.g_isFirstPacket = FALSE,
                                   !.g_lastPacketTime = t,
                                   !.g_sessionStartTime = t],
              result |-> EmptyObject]
        ELSE IF Debounced(duration_us)
        THEN [state |-> s1,
              result |-> CreateResultObject("debounced",
                             LastInstant(s1.g_speedWindow),
                             s1.g_globalMax,
                             ReportedMin(s1.g_globalMin),
                             s1.g_globalAvgKbps,
                             CalculateJitter(s1.g_speedWindow, WindowAvg(s1.g_speedWindow)),
                             s1.g_totalBytes)]
        ELSE LET instantKbps == InstantKbps(s1.g_accumulatedBytes, duration_us)
                 max == UpdateMax(s1.g_globalMax, instantKbps)
                 count == s1.g_sampleCount + 1
                 min == UpdateMin(s1.g_globalMin, instantKbps, count)
                 globalAvgKbps == GlobalAvgKbps(s1.g_totalBytes, t - s1.g_sessionStartTime)
                 window == PushSample(s1.g_speedWindow, instantKbps)
                 jitter == CalculateJitter(window,
                               RDiv(Accumulate(window, Zero), Num(Len(window))))
             IN  [state |-> [s1 EXCEPT !.g_globalMax = max,
                                       !.g_sampleCount = count,
                                       !.g_globalMin = min,
                                       !.g_globalAvgKbps = globalAvgKbps,
                                       !.g_speedWindow = window,
                                       !.g_accumulatedBytes = 0,
                                       !.g_lastPacketTime = t],
                  result |-> CreateResultObject("tick", instantKbps, max,
                                 ReportedMin(min), globalAvgKbps, jitter,
                                 s1.g_totalBytes)]

\* byte counts and inter-arrival times (microseconds) of the events
ByteCounts == {0, 1000}
Gaps == {50000, 100000}

\* JS values handed to the entry points
ArrayBuffer(byteLength) == [type |-> "ArrayBuffer", value |-> byteLength]
Number(len) == [type |-> "number", value |-> len]
Text == [type |-> "string", value |-> 0]
NegativeLen == -1000
JsValues ==
    {ArrayBuffer(n) : n \in ByteCounts} \cup {Number(n) : n \in ByteCounts \cup {NegativeLen}}
        \cup {Text}

\* how a JS value reads as a byte count
ArgClass(arg) ==
    IF arg.type = "ArrayBuffer" THEN "size"
    ELSE IF arg.type # "number" THEN "non-numeric"
    ELSE IF arg.value < 0 THEN "negative" ELSE "size"

\* line 215, static_cast<size_t>(len): the value for a non-negative len; for a
\* negative len the conversion is undefined and yields some size_t, drawn here
\* from the byte counts of the model
StaticCastSizeT(len) == IF len >= 0 THEN {len} ELSE ByteCounts

\* one event: the clock has advanced by gap when ProcessTrafficCore reads it
Ingest(byteLength, gap) ==
    \E out \in {ProcessTrafficCore(g, byteLength, now + gap)},
       ref \in {IF fresh.state = g THEN ProcessTrafficCore(g, byteLength, now + gap)
                 ELSE ProcessTrafficCore(fresh.state, byteLength, now + gap)} :
        /\ now' = now + gap
        /\ g' = out.state
        /\ result' = out.result
        /\ fresh' = ref
        /\ session' = Append(session, <<byteLength, now + gap>>)
        /\ calls' = calls + 1
        /\ UNCHANGED <<rvars, cvars, callLimit, resets>>

\* lines 190-193, 197, 213: `return nullptr;` before ProcessTrafficCore is called
ReturnNull ==
    /\ result' = [site |-> "null"]
    /\ calls' = calls + 1
    /\ UNCHANGED <<rvars, cvars, g, now, fresh, session, callLimit, resets>>

\* AnalyzeTraffic, lines 177-199: a value that is not an ArrayBuffer raises a
\* type error; otherwise the ArrayBuffer's byteLength is processed
AnalyzeTraffic(arg, gap) ==
    /\ calls < callLimit
    /\ lastArg' = ArgClass(arg)
    /\ IF arg.type # "ArrayBuffer"
         THEN ReturnNull
         ELSE Ingest(arg.value, gap)

\* AnalyzeLength, lines 205-216: napi_get_value_double fails on a value that
\* is not a number; otherwise static_cast<size_t>(len) is processed
AnalyzeLength(arg, gap) ==
    /\ calls < callLimit
    /\ lastArg' = ArgClass(arg)
    /\ IF arg.type # "number"
         THEN ReturnNull
         ELSE \E byteLength \in StaticCastSizeT(arg.value) : Ingest(byteLength, gap)

\* resetState from JS: ResetState returns nullptr
CallResetState ==
    /\ resets < MaxResets
    /\ g' = ResetState(g, now)
    /\ result' = [site |-> "null"]
    /\ fresh' = [state |-> FreshState, result |-> [site |-> "null"]]
    /\ session' = <<>>
    /\ resets' = resets + 1
    /\ lastArg' = "none"
    /\ UNCHANGED <<rvars, cvars, now, calls, callLimit>>

StatsInit(limit) ==
    /\ g = FreshState
    /\ now = 0
    /\ result = [site |-> "none"]
    /\ session = <<>>
    /\ fresh = [state |-> FreshState, result |-> [site |-> "none"]]
    /\ calls = 0
    /\ callLimit = limit
    /\ resets = 0
    /\ lastArg = "none"

StatsNext ==
    \/ \E byteLength \in ByteCounts, gap \in Gaps : AnalyzeTraffic(ArrayBuffer(byteLength), gap)
    \/ \E len \in ByteCounts, gap \in Gaps : AnalyzeLength(Number(len), gap)
    \/ CallResetState

\* the entry points called with any JS value
BoundaryNext ==
    \/ \E arg \in JsValues, gap \in Gaps : AnalyzeTraffic(arg, gap)
    \/ \E arg \in JsValues, gap \in Gaps : AnalyzeLength(arg, gap)
    \/ CallResetState

(***************************************************************************)
(* Specifications of the renderer.                                         *)
(***************************************************************************)
\* no pixel copy is under way
CopyIdle ==
    /\ bufferStride = 0
    /\ bitmapPixels = <<>>
    /\ windowPixels = <<>>
    /\ row = 0

\* the RenderManager with the given surface handle and recorded size
RenderInitWith(window, size, limit) ==
    /\ nativeWindow_ = window
    /\ width_ = size[1]
    /\ height_ = size[2]
    /\ dataMutex_ = NoThread
    /\ speedHistory_ = <<>>
    /\ isRendering_ = FALSE
    /\ pc = [t \in Threads |-> "idle"]
    /\ handler = [t \in Threads |-> NoCall]
    /\ buffer = [t \in Threads |-> "none"]
    /\ needsUnmap = [t \in Threads |-> FALSE]
    /\ bitmap = [t \in Threads |-> <<0, 0>>]
    /\ data = [t \in Threads |-> <<>>]
    /\ copied = [t \in Threads |-> <<0, 0>>]
    /\ presented = NoFrame
    /\ pushCount = 0
    /\ pushLimit = limit
    /\ pushed = <<>>

\* the RenderManager as constructed: no surface, size 0 x 0
RenderInit(limit) == RenderInitWith(NULL, <<0, 0>>, limit) /\ CopyIdle

Init == RenderInit(MaxPush) /\ StatsInit(MaxEvents)

PushNext ==
    \/ \E t \in Threads : PushBack(t)
    \/ \E t \in Threads : PushEvict(t)
    \/ \E t \in Threads : PushCas(t)
    \/ \E t \in Threads : ClearData(t)
    \/ \E t \in Threads : DrawCheck(t)

ReaderNext ==
    \/ \E t \in Threads : GetDataSnapshot(t)
    \/ \E t \in Threads : SnapshotReturn(t)

\* the statements of DrawFrame after its surface check
FrameNext ==
    \/ \E t \in Threads : DrawRequestOk(t)
    \/ \E t \in Threads : DrawRequestFail(t)
    \/ \E t \in Threads, mmapped \in BOOLEAN : DrawMap(t, mmapped)
    \/ \E t \in Threads : DrawMapFail(t)
    \/ \E t \in Threads : DrawMapFailReturn(t)
    \/ \E t \in Threads : DrawSnapshot(t)
    \/ \E t \in Threads : DrawCopy(t)
    \/ \E t \in Threads : DrawFlush(t)
    \/ \E t \in Threads : DrawClear(t)

SurfaceNext ==
    \/ \E size \in SurfaceSizes, sizeOk \in BOOLEAN : OnSurfaceCreated(size, sizeOk)
    \/ \E size \in SurfaceSizes : OnSurfaceChanged(size)
    \/ OnSurfaceDestroyed
    \/ FrameNext

Next == PushNext \/ SurfaceNext

Spec == Init /\ [][Next]_vars

\* the next statement of a thread that holds the lock in PushData or runs DrawFrame
DrawStep(t) ==
    \/ PushEvict(t)
    \/ DrawCheck(t)
    \/ DrawRequestOk(t)
    \/ DrawRequestFail(t)
    \/ \E mmapped \in BOOLEAN : DrawMap(t, mmapped)
    \/ DrawMapFail(t)
    \/ DrawMapFailReturn(t)
    \/ DrawSnapshot(t)
    \/ DrawCopy(t)
    \/ DrawFlush(t)
    \/ DrawClear(t)

\* every running thread is scheduled again: a PushData past its push_back
\* releases the lock, and a DrawFrame reaches its next statement (the buffer
\* request returns, with a buffer or with an error)
Fairness == \A t \in Threads : WF_vars(DrawStep(t))

\* the renderer after OnSurfaceCreated reported a 2x2 surface; the surface is
\* resized and finally destroyed while frames are drawn
LiveInit == RenderInitWith(Window, <<2, 2>>, MaxLivePush) /\ CopyIdle /\ StatsInit(MaxEvents)

LiveNext ==
    \/ PushNext
    \/ \E size \in SurfaceSizes : OnSurfaceChanged(size)
    \/ OnSurfaceDestroyed
    \/ FrameNext

SpecLive == LiveInit /\ [][LiveNext]_vars /\ Fairness

\* the renderer after OnSurfaceCreated reported a 2x2 surface, before any push
BurstInit == RenderInitWith(Window, <<2, 2>>, MaxPush) /\ CopyIdle /\ StatsInit(MaxEvents)

\* PushData calls alone, the surface staying as created and every buffer
\* request and mapping succeeding
BurstNext ==
    \/ PushNext
    \/ \E t \in Threads : DrawRequestOk(t)
    \/ \E t \in Threads, mmapped \in BOOLEAN : DrawMap(t, mmapped)
    \/ \E t \in Threads : DrawSnapshot(t)
    \/ \E t \in Threads : DrawCopy(t)
    \/ \E t \in Threads : DrawFlush(t)
    \/ \E t \in Threads : DrawClear(t)

SpecBurst == BurstInit /\ [][BurstNext]_vars

\* a frame about to copy its bitmap, every byte of which is distinct and
\* non-zero, into a zeroed window buffer
CopyInit ==
    \E width \in CopyWidths, height \in CopyHeights, stride \in CopyStrides :
        /\ RenderInitWith(Window, <<width, height>>, 0)
        /\ StatsInit(MaxEvents)
        /\ bufferStride = stride
        /\ bitmapPixels = [a \in 0 .. (width * height * 4 - 1) |-> a + 1]
        /\ windowPixels = [a \in WindowOffsets(width, height, stride) |-> 0]
        /\ row = 0

CopyNext == CopyWhole \/ CopyRow

SpecCopy == CopyInit /\ [][CopyNext]_vars

BufferInit == RenderInit(MAX_HISTORY_SIZE + MaxOverflow) /\ StatsInit(MaxEvents)

BufferNext == PushNext \/ ReaderNext

SpecBuffer == BufferInit /\ [][BufferNext]_vars

\* the analyzer alone: no sample is pushed to the chart
StatsOnlyInit == RenderInit(0) /\ StatsInit(MaxEvents)

SpecStats == StatsOnlyInit /\ [][StatsNext]_vars

\* sessions long enough to pass the warm-up: downloads arriving 100 ms after
\* the previous event, uploads of 1000 bytes arriving 50 ms after it
WarmupNext ==
    \/ \E byteLength \in ByteCounts :
          AnalyzeTraffic(ArrayBuffer(byteLength), MIN_CALC_INTERVAL_US)
    \/ AnalyzeLength(Number(1000), 50000)
    \/ CallResetState

WarmupInit == RenderInit(0) /\ StatsInit(MaxWarmupEvents)

SpecWarmup == WarmupInit /\ [][WarmupNext]_vars

BoundaryInit == RenderInit(0) /\ StatsInit(MaxBoundaryCalls)

SpecBoundary == BoundaryInit /\ [][BoundaryNext]_vars

(***************************************************************************)
(* Claims about the renderer.                                              *)
(***************************************************************************)
\* C1: at most one DrawFrame is in flight: while one thread is past the
\* surface check (requesting, drawing into or submitting a buffer), no other
\* thread is, whichever entry point (PushData, OnSurfaceChanged) started it.
C1_OneFrameInFlight == Cardinality({t \in Threads : Rendering(t)}) <= 1

\* C2: whenever no PushData is inside its critical section, the sample buffer
\* holds at most MAX_HISTORY_SIZE values and they are exactly the last
\* MAX_HISTORY_SIZE values pushed since the last ClearData, in arrival order;
\* a returned snapshot never holds more than MAX_HISTORY_SIZE values.
C2_BufferHoldsLastPushed ==
    /\ LockFree => /\ Len(speedHistory_) <= MAX_HISTORY_SIZE
                   /\ speedHistory_ = LastN(pushed, MAX_HISTORY_SIZE)
    /\ \A t \in Threads : pc[t] = "got" => Len(data[t]) <= MAX_HISTORY_SIZE

\* C2 witness: 1..20 were pushed with no clear, and the buffer is 6..20
C2_Witness ==
    /\ LockFree
    /\ pushed = [i \in 1..(MAX_HISTORY_SIZE + 5) |-> i]
    /\ speedHistory_ = [i \in 1..MAX_HISTORY_SIZE |-> i + 5]

\* C3: the vector a GetDataSnapshot call returns is the buffer as it stood at
\* the instant of the copy, and at that instant no push is half applied: it is
\* the last MAX_HISTORY_SIZE values pushed since the last clear.
C3_SnapshotIsConsistent ==
    [][\A t \in Threads :
          (pc[t] \in {"idle", "snapshot"} /\ pc'[t] \in {"got", "copy"}) =>
              /\ data'[t] = speedHistory_
              /\ data'[t] = LastN(pushed, MAX_HISTORY_SIZE)
              /\ \A u \in Threads : pc[u] # "evict"]_vars

\* C3 witness: a full snapshot is in a reader's hands while another thread is
\* between its append and its evict, the buffer holding one value too many
C3_Witness ==
    \E t, u \in Threads :
        /\ pc[t] = "got"
        /\ Len(data[t]) = MAX_HISTORY_SIZE
        /\ pc[u] = "evict"
        /\ Len(speedHistory_) = MAX_HISTORY_SIZE + 1

\* C10: a DrawFrame that finds no surface handle returns at once: it holds no
\* buffer, copies no pixels, submits nothing and leaves isRendering_ false;
\* and PushData appends its sample whether or not a surface is held.
C10_NoSurfaceIsNoOp ==
    [][\A t \in Threads :
          /\ (pc[t] = "check" /\ nativeWindow_ = NULL /\ pc'[t] # "check") =>
                /\ pc'[t] = "idle"
                /\ buffer'[t] = "none"
                /\ copied' = copied
                /\ presented' = presented
                /\ isRendering_' = FALSE
          /\ (pc[t] = "idle" /\ pc'[t] = "evict" /\ nativeWindow_ = NULL) =>
                speedHistory_' = Append(speedHistory_, pushCount')]_vars

\* C10 witness: every allowed push has returned with no surface held, nothing
\* was ever submitted, the samples are stored and the guard is clear
C10_Witness ==
    /\ nativeWindow_ = NULL
    /\ pushCount = pushLimit
    /\ \A t \in Threads : pc[t] = "idle"
    /\ presented = NoFrame
    /\ speedHistory_ = [i \in 1..pushLimit |-> i]
    /\ isRendering_ = FALSE

(***************************************************************************)
(* Claims about the statistics engine.                                     *)
(***************************************************************************)
Snapshots == {"debounced", "tick"}

RECURSIVE SumBytes(_)
SumBytes(events) == IF events = <<>> THEN 0 ELSE Head(events)[1] + SumBytes(Tail(events))

\* every event after the first arrived exactly `gap` after its predecessor
Spaced(events, gap) ==
    \A i \in 2..Len(events) : events[i][2] - events[i - 1][2] = gap

\* C4: after resetState every value the analyzer returns equals the value a
\* newly loaded analyzer returns for the same events at the same times.
C4_ResetIsFresh ==
    result.site \in {"empty", "debounced", "tick"} => result = fresh.result

\* C5: the avgKbps of a snapshot returned for an event under 100 ms is
\* recomputed from the updated totalBytes and the time since session start.
C5_DebouncedAvgRefreshed ==
    result.site = "debounced" =>
        result.avgKbps = GlobalAvgKbps(g.g_totalBytes, now - g.g_sessionStartTime)

\* C6: an event under 100 ms after the last tick leaves the window, the
\* extremes, the sample count and lastPacketTime unchanged, returns the
\* instantKbps, jitter, maxKbps and minKbps of the previous snapshot, and
\* returns a totalBytes that includes the event's bytes.
C6_DebouncedKeepsSample ==
    [][(calls' = calls + 1 /\ result'.site = "debounced") =>
          /\ g'.g_speedWindow = g.g_speedWindow
          /\ g'.g_globalMax = g.g_globalMax
          /\ g'.g_globalMin = g.g_globalMin
          /\ g'.g_sampleCount = g.g_sampleCount
          /\ g'.g_lastPacketTime = g.g_lastPacketTime
          /\ result'.totalBytes = g.g_totalBytes + session'[Len(session')][1]
          /\ result.site \in Snapshots =>
                /\ result'.instantKbps = result.instantKbps
                /\ result'.jitter = result.jitter
                /\ result'.maxKbps = result.maxKbps
                /\ result'.minKbps = result.minKbps]_vars

\* C6 witness: a debounced event with bytes was answered after two ticks of
\* different speed
C6_Witness ==
    /\ result.site = "debounced"
    /\ g.g_accumulatedBytes > 0
    /\ Len(g.g_speedWindow) >= 2
    /\ g.g_speedWindow[1] # g.g_speedWindow[Len(g.g_speedWindow)]

C8_TotalIsSum ==
    /\ [](/\ g.g_totalBytes = SumBytes(session)
          /\ result.site \in Snapshots => result.totalBytes = SumBytes(session))
    /\ [][resets' = resets => g'.g_totalBytes >= g.g_totalBytes]_vars

\* C8 witness: four events 100 ms apart, a zero-byte one among them
C8_Witness ==
    /\ Len(session) = 4
    /\ Spaced(session, MIN_CALC_INTERVAL_US)
    /\ \E i \in 1..Len(session) : session[i][1] = 0
    /\ g.g_totalBytes = 3000
    /\ result.site = "tick"

\* C9: in a fresh session of 1000-byte events exactly 100 ms apart every
\* computed tick reports instantKbps = maxKbps = 78.125 and jitter 0.
C9_UniformSessionRate ==
    (/\ resets = 0
     /\ result.site = "tick"
     /\ \A i \in 1..Len(session) : session[i][1] = 1000
     /\ Spaced(session, MIN_CALC_INTERVAL_US)) =>
        /\ result.instantKbps = Frac(625, 8)
        /\ result.maxKbps = Frac(625, 8)
        /\ result.jitter = Sqrt(Zero)

(***************************************************************************)
(* Further claims about the renderer.                                      *)
(***************************************************************************)
\* C11: a DrawFrame that finds a surface handle but a recorded width or
\* height of zero returns at once: it requests no buffer, submits nothing and
\* leaves isRendering_ false.
C11_ZeroSizeIsNoOp ==
    [][\A t \in Threads :
          (/\ pc[t] = "check"
           /\ nativeWindow_ # NULL
           /\ (width_ = 0 \/ height_ = 0)
           /\ pc'[t] # "check") =>
                /\ pc'[t] = "idle"
                /\ buffer'[t] = "none"
                /\ presented' = presented
                /\ isRendering_' = FALSE]_vars

\* the UI thread is inside OnSurfaceChanged
Resizing == handler[UiThread].name = "OnSurfaceChanged"

\* C13: an OnSurfaceChanged call records the size it was given and runs
\* DrawFrame before it returns; with a surface held that DrawFrame goes on to
\* request a buffer whether or not isRendering_ is already set, the recorded
\* size stays the new one until the callback returns, and the bitmap it
\* builds and the pixels it copies have the new size.
C13_ResizeRedraws ==
    /\ [](Resizing => /\ InDrawFrame(UiThread)
                      /\ <<width_, height_>> = handler[UiThread].size)
    /\ [][Resizing =>
            /\ (pc[UiThread] = "check" /\ nativeWindow_ # NULL /\ pc'[UiThread] # "check") =>
                   pc'[UiThread] = "request"
            /\ (pc[UiThread] = "map" /\ pc'[UiThread] = "snapshot") =>
                   bitmap'[UiThread] = handler[UiThread].size
            /\ (pc[UiThread] = "copy" /\ pc'[UiThread] = "flush") =>
                   copied'[UiThread] = handler[UiThread].size
            /\ (pc[UiThread] = "flush" /\ pc'[UiThread] = "clear") =>
                   /\ presented'.submitted
                   /\ copied[UiThread] = handler[UiThread].size
            /\ pc'[UiThread] = "idle" =>
                   pc[UiThread] \in {"check", "request", "aborted", "clear"}]_vars

\* C13 witness: the resize callback has submitted a 2x2 frame while a frame
\* started by PushData holds the guard and is still in flight
C13_Witness ==
    /\ Resizing
    /\ pc[UiThread] = "clear"
    /\ handler[UiThread].size = <<2, 2>>
    /\ copied[UiThread] = <<2, 2>>
    /\ presented.submitted
    /\ isRendering_
    /\ \E t \in Producers : Rendering(t)

\* C14: every step with which a thread leaves DrawFrame (no surface, request
\* failure, mmap failure, completion) leaves isRendering_ false, and whenever
\* isRendering_ is true it is false again later, provided every running
\* thread keeps being scheduled and the buffer request returns.
C14_GuardReleased ==
    /\ [][\A t \in Threads :
             (InDrawFrame(t) /\ pc'[t] = "idle") => isRendering_' = FALSE]_vars
    /\ (isRendering_ ~> ~isRendering_)

\* C14 witness: a frame started by PushData has submitted its buffer and is at
\* its last statement with the guard still set
C14_Witness ==
    \E t \in Producers :
        /\ pc[t] = "clear"
        /\ handler[t].name = "PushData"
        /\ isRendering_
        /\ presented.submitted

C16_LatestStateDrawn ==
    (/\ \A t \in Threads : pc[t] = "idle"
     /\ pushed # <<>>) =>
        /\ presented.submitted
        /\ presented.data = speedHistory_

\* C18: when the buffer stride differs from the bitmap stride width_ * 4,
\* after the copy every row r of the window buffer holds, from offset
\* r * bufferStride on, the width_ * 4 bytes of row r of the bitmap (so no
\* row's bytes were overwritten by the copy of another row).
C18_RowCopyExact ==
    (bufferStride # BitmapStride /\ row = height_) =>
        \A r \in 0 .. (height_ - 1), k \in 0 .. (width_ * 4 - 1) :
            windowPixels[r * bufferStride + k] = bitmapPixels[r * BitmapStride + k]

\* C19: dataMutex_ is held only by a thread inside PushData's append-and-evict
\* (ClearData and the snapshot copy take and release it within one step):
\* never by a thread at the compare_exchange or anywhere in DrawFrame, so a
\* thread that comes to lock it never holds it already; and whoever holds it
\* can finish and release it whatever the frames in flight are doing.
C19_LockOnlyAroundBuffer ==
    /\ \A t \in Threads : dataMutex_ = t => pc[t] = "evict"
    /\ \A t \in Threads : (pc[t] = "cas" \/ InDrawFrame(t)) => dataMutex_ # t
    /\ \A t \in Threads : pc[t] = "evict" => ENABLED PushEvict(t)
    /\ \A t \in Threads : (pc[t] = "snapshot" /\ LockFree) => ENABLED DrawSnapshot(t)

\* C19 witness: one thread's frame is waiting in the buffer request while
\* another thread is inside PushData's critical section
C19_Witness ==
    \E t, u \in Threads :
        /\ t # u
        /\ pc[t] = "request"
        /\ pc[u] = "evict"
        /\ dataMutex_ = u

\* C21: within a DrawFrame started by PushData the surface state does not
\* move: the handle passed to FlushBuffer or AbortBuffer is the non-null
\* handle the buffer was requested from, and the pixel copy uses the width
\* and height the bitmap was built with, whatever OnSurfaceDestroyed and
\* OnSurfaceChanged do meanwhile.
C21_SurfaceStableInFrame ==
    [][\A t \in Threads :
          handler[t].name = "PushData" =>
              /\ (pc[t] = "flush" /\ pc'[t] = "clear") =>
                     /\ nativeWindow_ = Window
                     /\ presented'.window = Window
              /\ (pc[t] = "map" /\ pc'[t] = "aborted") => nativeWindow_ = Window
              /\ (pc[t] = "copy" /\ pc'[t] = "flush") => copied'[t] = bitmap[t]]_vars

(***************************************************************************)
(* Further claims about the statistics engine.                             *)
(***************************************************************************)
\* C12: a call of analyzeLength or analyzeTraffic whose argument is a negative
\* number or not a number at all is rejected: it returns without running
\* ProcessTrafficCore and leaves every statistics field as it was.
C12_BadCountRejected ==
    [][(calls' = calls + 1 /\ lastArg' \in {"negative", "non-numeric"}) =>
          /\ g' = g
          /\ result'.site = "null"]_vars

\* the smallest of a non-empty set of numbers
MinOf(S) == CHOOSE m \in S : \A x \in S : ~RLess(x, m)

\* C17: the window holds one instantKbps per computed tick of the session;
\* through the first 5 ticks g_globalMin keeps its sentinel and every snapshot
\* reports minKbps 0; from the 6th tick on g_globalMin, and the minKbps of
\* every snapshot, is the smallest instantKbps of ticks 6 and later.
C17_WarmupMin ==
    LET n == g.g_sampleCount
        window == g.g_speedWindow
    IN  /\ Len(window) = n
        /\ n <= 5 =>
              /\ g.g_globalMin = Num(-1)
              /\ result.site \in Snapshots => result.minKbps = Zero
        /\ n >= 6 =>
              /\ g.g_globalMin = MinOf({window[i] : i \in 6..n})
              /\ result.site \in Snapshots => result.minKbps = g.g_globalMin

\* C17 witness: a seventh tick set a non-zero minimum below the sixth tick's
\* speed, while a slower warm-up tick stays ignored
C17_Witness ==
    /\ result.site = "tick"
    /\ g.g_sampleCount = 7
    /\ RLess(Zero, result.minKbps)
    /\ result.minKbps = g.g_speedWindow[7]
    /\ RLess(g.g_speedWindow[7], g.g_speedWindow[6])
    /\ \E i \in 1..5 : RLess(g.g_speedWindow[i], result.minKbps)

\* the bytes received since the last computed tick of a session, from its
\* event log alone: the first event opens the first interval, and an event
\* 100 ms or more after the start of the running interval computes a tick
\* and closes it
PendingBytes(events) ==
    LET pending[i \in 0..Len(events)] ==
          IF i = 0 THEN [bytes |-> 0, since |-> 0]
          ELSE IF i = 1 THEN [bytes |-> events[1][1], since |-> events[1][2]]
          ELSE IF events[i][2] - pending[i - 1].since >= MIN_CALC_INTERVAL_US
               THEN [bytes |-> 0, since |-> events[i][2]]
               ELSE [bytes |-> pending[i - 1].bytes + events[i][1],
                     since |-> pending[i - 1].since]
    IN  pending[Len(events)].bytes

\* C20: g_accumulatedBytes is the sum of the byte counts of the events
\* received since the last computed tick of the session (since its start when
\* no tick was computed yet); an event that computes a tick leaves it 0 after
\* using the pending bytes plus its own for instantKbps, and any other event
\* adds its byte count to it.
C20_PendingBytesConserved ==
    /\ [](g.g_accumulatedBytes = PendingBytes(session))
    /\ [][calls' = calls + 1 =>
            LET byteLength == session'[Len(session')][1]
            IN  IF result'.site = "tick"
                THEN /\ g'.g_accumulatedBytes = 0
                     /\ result'.instantKbps =
                            InstantKbps(g.g_accumulatedBytes + byteLength,
                                        now' - g.g_lastPacketTime)
                ELSE g'.g_accumulatedBytes = g.g_accumulatedBytes + byteLength]_vars

\* C20 witness: after an earlier tick, 1000 bytes arrived 50 ms later and were
\* held back, and the tick 100 ms after that reported 2000 bytes over 150 ms
C20_Witness ==
    /\ result.site = "tick"
    /\ g.g_sampleCount >= 2
    /\ g.g_accumulatedBytes = 0
    /\ result.instantKbps = InstantKbps(2000, 150000)

=============================================================================
